---- MODULE Spec2Model ----
(***************************************************************************)
(* Model of app.py, the Nautilus maritime-incident dashboard: load_data,   *)
(* the four sidebar filters, the KPI metrics and the four tabs.  Streamlit *)
(* re-executes the whole script on every widget interaction, so each       *)
(* action is one complete run of the script with the new widget values.    *)
(*                                                                         *)
(* A DataFrame is a sequence of rows; a row is a record of its columns     *)
(* plus "index", the row label.  A nullable cell is Null (pandas NaN/NaT)  *)
(* or Some(v).                                                             *)
(***************************************************************************)
EXTENDS Integers, Sequences, FiniteSets

\* ------------------------------------------------------------ bounds
\* Longest CSV file explored (number of data rows).
MaxRows == 3

\* ------------------------------------------------------------ cells
Null == <<>>
Some(v) == <<v>>
Val(c) == c[1]

\* ------------------------------------------------------------ input rows
\* Rows a CSV file may hold, as pd.read_csv delivers them (an empty cell is
\* NaN).  Date is still text: here the triple of its year, month, day fields.
SampleRows ==
  << [Date |-> Some(<<2020, 1, 15>>), Country |-> Some("USA"), Vessel_Type |-> Some("Cargo"),
      Incident_Type |-> Some("Collision"), Latitude |-> Some(10), Longitude |-> Some(20),
      Casualties |-> Some(2), Cargo_Loss |-> Some("Yes")],
     [Date |-> Some(<<2020, 2, 3>>), Country |-> Some("USA"), Vessel_Type |-> Some("Tanker"),
      Incident_Type |-> Some("Grounding"), Latitude |-> Some(11), Longitude |-> Some(21),
      Casualties |-> Some(0), Cargo_Loss |-> Some("No")],
     [Date |-> Some(<<2021, 1, 7>>), Country |-> Some("UK"), Vessel_Type |-> Some("Cargo"),
      Incident_Type |-> Some("Collision"), Latitude |-> Some(12), Longitude |-> Some(22),
      Casualties |-> Some(5), Cargo_Loss |-> Some("Yes")],
     [Date |-> Some(<<2021, 13, 40>>), Country |-> Null, Vessel_Type |-> Some("Tanker"),
      Incident_Type |-> Null, Latitude |-> Null, Longitude |-> Null,
      Casualties |-> Null, Cargo_Loss |-> Null],
     [Date |-> Some(<<2020, 2, 29>>), Country |-> Some("India"), Vessel_Type |-> Null,
      Incident_Type |-> Some("Grounding"), Latitude |-> Null, Longitude |-> Some(23),
      Casualties |-> Some(1), Cargo_Loss |-> Some("No")],
     [Date |-> Some(<<2020, 1, 20>>), Country |-> Some("USA"), Vessel_Type |-> Some("Cargo"),
      Incident_Type |-> Null, Latitude |-> Some(14), Longitude |-> Some(24),
      Casualties |-> Some(3), Cargo_Loss |-> Some("yes")] >>

\* Every file of at most MaxRows of the SampleRows, in every order, a row
\* taken at most once.
Files ==
  UNION { { [i \in 1..n |-> SampleRows[f[i]]] :
              f \in {g \in [1..n -> 1..Len(SampleRows)] :
                        \A i, j \in 1..n : i # j => g[i] # g[j]} }
          : n \in 0..MaxRows }

\* ------------------------------------------------------------ load_data
DaysIn(y, m) ==
  IF m \in {4, 6, 9, 11} THEN 30
  ELSE IF m = 2 THEN (IF y % 4 = 0 /\ (y % 100 # 0 \/ y % 400 = 0) THEN 29 ELSE 28)
  ELSE 31

\* pd.to_datetime(..., errors="coerce"): a valid date parses, anything else
\* (a missing cell included) becomes NaT.
to_datetime(c) ==
  IF c = Null THEN Null
  ELSE LET d == Val(c) IN
       IF Len(d) = 3 /\ d[2] \in 1..12 /\ d[3] \in 1..DaysIn(d[1], d[2])
       THEN c ELSE Null

\* .dt.year / .dt.month / .dt.day: NaT propagates.
dt_field(c, k) == IF c = Null THEN Null ELSE Some(Val(c)[k])

\* A mapping that also accepts the lower-case spellings.
CargoLossMapAnyCase(c) ==
  IF c = Some("Yes") \/ c = Some("yes") THEN Some(1)
  ELSE IF c = Some("No") \/ c = Some("no") THEN Some(0)
  ELSE Null

\* Series.map({"Yes": 1, "No": 0}): a key that is not in the dict maps to NaN.
CargoLossMap(c) ==
  IF c = Some("Yes") THEN Some(1)
  ELSE IF c = Some("No") THEN Some(0)
  ELSE Null

load_row(raw, i) ==
  LET date == to_datetime(raw.Date) IN
  [index |-> i - 1,
   Date |-> date,
   Year |-> dt_field(date, 1),
   Month |-> dt_field(date, 2),
   Day |-> dt_field(date, 3),
   Country |-> raw.Country,
   Vessel_Type |-> raw.Vessel_Type,
   Incident_Type |-> raw.Incident_Type,
   Latitude |-> raw.Latitude,
   Longitude |-> raw.Longitude,
   Casualties |-> raw.Casualties,
   Cargo_Loss |-> raw.Cargo_Loss,
   Cargo_Loss_Flag |-> CargoLossMap(raw.Cargo_Loss)]

load_data(file) == [i \in 1..Len(file) |-> load_row(file[i], i)]

\* ------------------------------------------------------------ frames
Rows(df) == {df[i] : i \in DOMAIN df}

\* DataFrame.empty
empty_never(df) == FALSE
empty(df) == Len(df) = 0

\* Series.fillna(v)
fillna(c, v) == IF c = Null THEN Some(v) ELSE c

\* Series.dropna().unique(), as the set of the values.
Options(df, col) == {Val(c) : c \in {r[col] : r \in Rows(df)} \ {Null}}

\* Series.fillna(0).sum(); also the group-wise "sum", which skips NaN.
RECURSIVE SumCol(_, _)
SumCol(df, col) ==
  IF df = <<>> THEN 0
  ELSE Val(fillna(Head(df)[col], 0)) + SumCol(Tail(df), col)

\* Series.count(): the cells that are not NaN.
CountCol(df, col) == Cardinality({i \in DOMAIN df : df[i][col] # Null})

\* Distinct values with NaN kept as one of them (dropna=False).
nunique_keepna(df, col) == Cardinality({r[col] : r \in Rows(df)})

\* Series.nunique(): distinct values, NaN dropped.
nunique(df, col) == Cardinality(Options(df, col))

\* ------------------------------------------------------------ sidebar filters
\* A membership test that lets a missing cell through.
isin_or_na(c, values) == c = Null \/ Val(c) \in values

\* Series.isin(values), one cell: the multiselect's options are
\* dropna().unique(), so values holds no NaN and a NaN cell is in no selection.
isin(c, values) == c # Null /\ Val(c) \in values

\* The same step without the `if selection:` guard.
FilterByUnguarded(df, col, selection) ==
  SelectSeq(df, LAMBDA r : isin(r[col], selection))

\* `if years: filtered = filtered[filtered["Year"].isin(years)]`
FilterBy(df, col, selection) ==
  IF selection = {} THEN df
  ELSE SelectSeq(df, LAMBDA r : isin(r[col], selection))

\* A run that goes on from the frame the previous run left.
KeepPrevious(loaded, previous) == previous

\* `filtered = data.copy()`: every run starts from the loaded frame, whatever
\* the previous run's `filtered` was.
FreshCopy(loaded, previous) == loaded

ApplyFilters(df, ys, cs, vs, ins) ==
  FilterBy(FilterBy(FilterBy(FilterBy(df, "Year", ys), "Country", cs),
                    "Vessel_Type", vs), "Incident_Type", ins)

\* ------------------------------------------------------------ KPI metrics
KPI(df) ==
  [Total_Incidents |-> Len(df),
   Total_Casualties |-> SumCol(df, "Casualties"),
   Cargo_Loss_Events |-> SumCol(df, "Cargo_Loss_Flag"),
   Countries_Involved |-> nunique(df, "Country")]

\* ------------------------------------------------------------ tab 1
\* pivot_table(index="Month", columns="Year", values="Incident_Type",
\* aggfunc="count", fill_value=0): the groups are the (Month, Year) pairs of
\* the rows where neither is NaN, a cell counts the group's non-NaN
\* Incident_Type cells, and a pair without a group is filled with 0.
pivot_table(df) ==
  LET kept == SelectSeq(df, LAMBDA r : r.Month # Null /\ r.Year # Null)
      months == {Val(r.Month) : r \in Rows(kept)}
      yrs == {Val(r.Year) : r \in Rows(kept)}
  IN [cell \in months \X yrs |->
        CountCol(SelectSeq(kept, LAMBDA r : Val(r.Month) = cell[1] /\ Val(r.Year) = cell[2]),
                 "Incident_Type")]

NoData == [view |-> "warning"]

Tab1(df) ==
  IF ~empty(df) THEN [view |-> "chart", pivot |-> pivot_table(df)] ELSE NoData

\* ------------------------------------------------------------ tab 2
\* px.scatter(filtered, x="Longitude", y="Latitude", ...): the frame goes to
\* the chart as it is.
Tab2(df) ==
  IF ~empty(df) THEN [view |-> "chart", frame |-> df] ELSE NoData

\* ------------------------------------------------------------ tab 3
\* groupby(["Incident_Type", "Vessel_Type"]).size(): groupby drops the rows
\* with a NaN key (dropna=True); one count per pair that occurs.
groupby_size(df) ==
  LET kept == SelectSeq(df, LAMBDA r : r.Incident_Type # Null /\ r.Vessel_Type # Null)
      keys == {<<Val(r.Incident_Type), Val(r.Vessel_Type)>> : r \in Rows(kept)}
  IN [k \in keys |->
        Len(SelectSeq(kept, LAMBDA r : Val(r.Incident_Type) = k[1] /\ Val(r.Vessel_Type) = k[2]))]

Tab3(df) ==
  IF ~empty(df) THEN [view |-> "chart", sankey_data |-> groupby_size(df)] ELSE NoData

\* ------------------------------------------------------------ tab 4
TopN == 5

\* Python's order of the country names that occur.
Alphabetical == <<"India", "UK", "USA">>

CountryRows(df, c) == SelectSeq(df, LAMBDA r : r.Country = Some(c))

FirstSeen(df, c) == CHOOSE i \in DOMAIN df : df[i].Country = Some(c) /\ \A j \in 1..(i - 1) : df[j].Country # Some(c)

\* value_counts().nlargest(n).index: the n most frequent values, NaN not
\* counted; among equal counts the value met first comes first.
top_countries(df, n) ==
  LET cs == Options(df, "Country")
      Before(a, b) ==
        \/ Len(CountryRows(df, a)) > Len(CountryRows(df, b))
        \/ /\ Len(CountryRows(df, a)) = Len(CountryRows(df, b))
           /\ FirstSeen(df, a) < FirstSeen(df, b)
  IN {c \in cs : Cardinality({a \in cs : Before(a, c)}) < n}

\* filtered[Country.isin(top)].groupby("Country").agg({"Casualties": "sum",
\* "Cargo_Loss_Flag": "sum", "Incident_Type": "count"}).reset_index(): one row
\* per country, in the order of the sorted group keys.
radar_rows(df) ==
  LET top == top_countries(df, TopN)
      in_top == SelectSeq(df, LAMBDA r : isin(r.Country, top))
      keys == SelectSeq(Alphabetical, LAMBDA c : c \in Options(in_top, "Country"))
  IN [i \in 1..Len(keys) |->
        LET g == CountryRows(in_top, keys[i]) IN
        [Country |-> keys[i],
         Casualties |-> SumCol(g, "Casualties"),
         Cargo_Loss_Flag |-> SumCol(g, "Cargo_Loss_Flag"),
         Incident_Type |-> CountCol(g, "Incident_Type")]]

Tab4(df) ==
  IF ~empty(df) THEN [view |-> "chart", radar_data |-> radar_rows(df)] ELSE NoData

\* ------------------------------------------------------------ the script
VARIABLES
  csv,        \* maritime_incidentsrr.csv, as read_csv delivers it
  cache,      \* what @st.cache_data holds for load_data()
  data,       \* data = load_data()
  years, countries, vessels, incidents,   \* the four multiselects
  filtered,   \* the Working Subset
  showing,    \* N of the sidebar's "Showing N records"
  kpi,        \* the four metrics
  tab1, tab2, tab3, tab4

vars == <<csv, cache, data, years, countries, vessels, incidents, filtered, showing,
          kpi, tab1, tab2, tab3, tab4>>

Toggle(selection, v) ==
  IF v \in selection THEN selection \ {v} ELSE selection \cup {v}

\* One execution of the script, lines 27 to 137, with the widgets' values.
\* load_data is memoized: after the first run it returns the cached frame.
Script(ys, cs, vs, ins) ==
  LET loaded == cache
      subset == ApplyFilters(FreshCopy(loaded, filtered), ys, cs, vs, ins)
  IN /\ csv' = csv
     /\ cache' = cache
     /\ data' = loaded
     /\ years' = ys
     /\ countries' = cs
     /\ vessels' = vs
     /\ incidents' = ins
     /\ filtered' = subset
     /\ showing' = Len(subset)
     /\ kpi' = KPI(subset)
     /\ tab1' = Tab1(subset)
     /\ tab2' = Tab2(subset)
     /\ tab3' = Tab3(subset)
     /\ tab4' = Tab4(subset)

\* The first run: load_data reads the file, every multiselect is empty.
Init ==
  /\ csv \in Files
  /\ cache = load_data(csv)
  /\ data = cache
  /\ years = {}
  /\ countries = {}
  /\ vessels = {}
  /\ incidents = {}
  /\ filtered = ApplyFilters(FreshCopy(data, data), {}, {}, {}, {})
  /\ showing = Len(filtered)
  /\ kpi = KPI(filtered)
  /\ tab1 = Tab1(filtered)
  /\ tab2 = Tab2(filtered)
  /\ tab3 = Tab3(filtered)
  /\ tab4 = Tab4(filtered)

SelectYear ==
  \E y \in Options(data, "Year") : Script(Toggle(years, y), countries, vessels, incidents)

SelectCountry ==
  \E c \in Options(data, "Country") : Script(years, Toggle(countries, c), vessels, incidents)

SelectVessel ==
  \E v \in Options(data, "Vessel_Type") : Script(years, countries, Toggle(vessels, v), incidents)

SelectIncident ==
  \E t \in Options(data, "Incident_Type") : Script(years, countries, vessels, Toggle(incidents, t))

\* A rerun with the widgets untouched.
Rerun == Script(years, countries, vessels, incidents)

Next == SelectYear \/ SelectCountry \/ SelectVessel \/ SelectIncident \/ Rerun

Spec == Init /\ [][Next]_vars

\* ------------------------------------------------------------ properties
\* The rows of df taken directly, with no reference to the filter steps.
Passes(r) ==
  /\ years # {} => r.Year # Null /\ Val(r.Year) \in years
  /\ countries # {} => r.Country # Null /\ Val(r.Country) \in countries
  /\ vessels # {} => r.Vessel_Type # Null /\ Val(r.Vessel_Type) \in vessels
  /\ incidents # {} => r.Incident_Type # Null /\ Val(r.Incident_Type) \in incidents

\* The records of df whose (Month, Year) is (m, y).
InMonth(df, m, y) == {i \in DOMAIN df : df[i].Month = Some(m) /\ df[i].Year = Some(y)}

\* The records of df whose Country is c.
OfCountry(df, c) == {i \in DOMAIN df : df[i].Country = Some(c)}

\* The non-null values the input rows hold in a column.
SampleValues(col) ==
  {Val(c) : c \in {SampleRows[i][col] : i \in DOMAIN SampleRows} \ {Null}}

MaxOf(S) == CHOOSE x \in S : \A y \in S : y <= x

RECURSIVE SumValues(_)
SumValues(f) ==
  IF DOMAIN f = {} THEN 0
  ELSE LET k == CHOOSE x \in DOMAIN f : TRUE
       IN f[k] + SumValues([x \in DOMAIN f \ {k} |-> f[x]])

\* C1: the Working Subset is a sub-collection of the loaded collection (its
\* rows are rows of data, each at most once, in data's order, so its size is
\* at most data's), and every row of it satisfies the predicate of every
\* dimension whose selection is not empty; a row that is null on such a
\* dimension is not in it.
C1_SubsetSatisfiesActiveFilters ==
  /\ Len(filtered) <= Len(data)
  /\ \A i \in DOMAIN filtered : filtered[i] \in Rows(data) /\ Passes(filtered[i])
  /\ \A i, j \in DOMAIN filtered : i < j => filtered[i].index < filtered[j].index
  /\ years # {} => \A i \in DOMAIN filtered : filtered[i].Year # Null
  /\ countries # {} => \A i \in DOMAIN filtered : filtered[i].Country # Null
  /\ vessels # {} => \A i \in DOMAIN filtered : filtered[i].Vessel_Type # Null
  /\ incidents # {} => \A i \in DOMAIN filtered : filtered[i].Incident_Type # Null

\* A country filter is active, the loaded collection holds a record with a
\* null Country, and the subset is not empty.
C1_Witness ==
  /\ countries # {}
  /\ \E r \in Rows(data) : r.Country = Null
  /\ filtered # <<>>
  /\ Len(filtered) < Len(data)

\* C2: the counts of the Category flow counts table add up to the size of the
\* Working Subset.
C2_SankeyCountsSumToSubsetSize ==
  tab3.view = "chart" => SumValues(tab3.sankey_data) = Len(filtered)

\* C3: the Top-N country summary has at most N rows, in descending order of
\* the countries' record counts, and each row's count field is the number of
\* the country's records in the Working Subset.
C3_TopNRankedWithRecordCounts ==
  tab4.view = "chart" =>
    LET rd == tab4.radar_data IN
    /\ Len(rd) <= TopN
    /\ \A i, j \in DOMAIN rd :
         i < j => Cardinality(OfCountry(filtered, rd[i].Country))
                    >= Cardinality(OfCountry(filtered, rd[j].Country))
    /\ \A i \in DOMAIN rd :
         rd[i].Incident_Type = Cardinality(OfCountry(filtered, rd[i].Country))

\* C4: a record of the Working Subset with a null Latitude is not among the
\* points handed to the animated scatter view, and is counted in the Calendar
\* counts and in the KPIs.
C4_NullLatitudeExcludedFromPoints ==
  \A i \in DOMAIN filtered :
    filtered[i].Latitude = Null =>
      /\ tab2.view = "chart" /\ filtered[i] \notin Rows(tab2.frame)
      /\ kpi.Total_Incidents = Len(filtered)
      /\ tab1.view = "chart"
      /\ \E m \in 1..12, y \in Options(filtered, "Year") :
           /\ i \in InMonth(filtered, m, y)
           /\ <<m, y>> \in DOMAIN tab1.pivot
           /\ tab1.pivot[<<m, y>>] = Cardinality(InMonth(filtered, m, y))

\* C5: each cell (m, y) of the Calendar counts matrix is the number of records
\* of the Working Subset whose Month is m and Year is y (0 where there is none).
C5_CalendarCellsCountRecords ==
  tab1.view = "chart" =>
    \A cell \in DOMAIN tab1.pivot :
      tab1.pivot[cell] = Cardinality(InMonth(filtered, cell[1], cell[2]))

\* C6: with an empty Working Subset every one of the four views shows the
\* 'No data' placeholder, with no aggregate computed, and every KPI is 0.
C6_EmptySubsetShowsNoData ==
  filtered = <<>> =>
    /\ tab1 = NoData /\ tab2 = NoData /\ tab3 = NoData /\ tab4 = NoData
    /\ kpi = [Total_Incidents |-> 0, Total_Casualties |-> 0,
              Cargo_Loss_Events |-> 0, Countries_Involved |-> 0]
    /\ showing = 0

\* The filters, not the file, emptied the subset.
C6_Witness ==
  /\ filtered = <<>>
  /\ Len(data) >= 2
  /\ tab1 = NoData /\ tab4 = NoData

\* C7: Total Incidents is the subset's size and the number the sidebar shows;
\* Total Casualties is the sum of Casualties with null as 0; Cargo Loss Events
\* is the number of records whose raw Cargo_Loss is exactly "Yes"; Countries
\* Involved is the number of distinct non-null Country values.
C7_KpiScalars ==
  /\ kpi.Total_Incidents = Len(filtered)
  /\ showing = kpi.Total_Incidents
  /\ kpi.Total_Casualties =
       Cardinality({<<i, k>> \in (DOMAIN filtered) \X (1..MaxOf(SampleValues("Casualties"))) :
                      filtered[i].Casualties # Null /\ k <= Val(filtered[i].Casualties)})
  /\ kpi.Cargo_Loss_Events =
       Cardinality({i \in DOMAIN filtered : filtered[i].Cargo_Loss = Some("Yes")})
  /\ kpi.Countries_Involved =
       Cardinality({c \in SampleValues("Country") : OfCountry(filtered, c) # {}})

\* Under an active filter the subset holds a record with null Casualties,
\* Country and Cargo_Loss, one with an unmapped Cargo_Loss and one with "Yes".
C7_Witness ==
  /\ vessels # {}
  /\ \E i \in DOMAIN filtered :
       filtered[i].Casualties = Null /\ filtered[i].Country = Null /\ filtered[i].Cargo_Loss = Null
  /\ \E i \in DOMAIN filtered : filtered[i].Cargo_Loss = Some("yes")
  /\ kpi.Cargo_Loss_Events >= 1
  /\ kpi.Total_Casualties >= 1

\* C8: load_data keeps every record, and a record's Cargo_Loss_Flag is 1
\* exactly when its raw Cargo_Loss is "Yes", 0 exactly when it is "No", and
\* null for every other raw value, null included.
C8_CargoLossFlag ==
  /\ Len(data) = Len(csv)
  /\ \A i \in DOMAIN data :
       /\ data[i].Cargo_Loss = csv[i].Cargo_Loss
       /\ data[i].Cargo_Loss_Flag = Some(1) <=> csv[i].Cargo_Loss = Some("Yes")
       /\ data[i].Cargo_Loss_Flag = Some(0) <=> csv[i].Cargo_Loss = Some("No")
       /\ data[i].Cargo_Loss_Flag = Null <=> csv[i].Cargo_Loss \notin {Some("Yes"), Some("No")}

\* The file holds "Yes", a null and another spelling.
C8_Witness ==
  /\ \E i \in DOMAIN data : csv[i].Cargo_Loss = Some("yes") /\ data[i].Cargo_Loss_Flag = Null
  /\ \E i \in DOMAIN data : csv[i].Cargo_Loss = Null /\ data[i].Cargo_Loss_Flag = Null
  /\ \E i \in DOMAIN data : data[i].Cargo_Loss_Flag = Some(1)

\* C9: with all four selections empty the Working Subset is the loaded
\* collection, records with null filter fields included.
C9_EmptySelectionIsIdentity ==
  (years = {} /\ countries = {} /\ vessels = {} /\ incidents = {}) => filtered = data

\* All four selections are empty and the collection holds records that are
\* null on a filter dimension.
C9_Witness ==
  /\ years = {} /\ countries = {} /\ vessels = {} /\ incidents = {}
  /\ \E i \in DOMAIN filtered : filtered[i].Year = Null /\ filtered[i].Country = Null
  /\ \E i \in DOMAIN filtered : filtered[i].Vessel_Type = Null
  /\ Len(filtered) = Len(data)

\* C10: after every run the Working Subset is the loaded collection filtered
\* with the current selection alone, and the loaded collection is what
\* load_data produced from the file.
C10_FullRefilterOfLoadedCollection ==
  /\ data = load_data(csv)
  /\ filtered = SelectSeq(data, Passes)

\* Two countries are selected, which takes a run with one of them alone
\* first, and the subset holds records of both.
C10_Witness ==
  /\ Cardinality(countries) = 2
  /\ \A c \in countries : OfCountry(filtered, c) # {}
  /\ years # {}
  /\ Len(filtered) < Len(data)

====
